---------------------------- MODULE Spec2Model ----------------------------
(***************************************************************************)
(* The MCP command-line clients of the repository, as one state machine.   *)
(*                                                                         *)
(* Three generations of the client are kept in the repository:             *)
(*   "three"  ANTHROPIC / OLLAMA / GEMINI   (src/README.md, lines 49-466)  *)
(*   "two"    ANTHROPIC / OLLAMA   (mcp-client-typescript/index.ts 1-269)  *)
(*   "one"    OLLAMA only        (mcp-client-typescript/index.ts 271-438)  *)
(* The variable client says which program runs.  Unless a comment says     *)
(* otherwise, line numbers refer to the three-provider client.             *)
(*                                                                         *)
(* One action is one run of the program from the resumption of an await    *)
(* to the next await (or to the end of the process): JavaScript runs such  *)
(* a stretch without interruption.  The only promise that is started and   *)
(* never awaited is mcp.connect (line 129); it settles on its own.         *)
(***************************************************************************)
EXTENDS Integers, Sequences, FiniteSets, TLC

(***************************************************************************)
(* Bounds of the model.                                                    *)
(***************************************************************************)
\* Query lines accepted in one session (the sentinel can always be typed).
MaxQueries == 2
\* Content blocks / tool calls carried by one model response.
MaxBlocks == 2
\* Entries of the manifest returned by listTools.
MaxTools == 2
\* Identifiers of the selected provider missing from the environment.
MaxAbsent == 1
\* times the Tool Schema Adapter is applied in AdapterSpec
MaxAdaptations == 3
\* requests of each kind the test tool server receives in ServerSpec
MaxRequests == 2

VARIABLES
  client,         \* which generation of the client runs
  argv,           \* TRUE iff process.argv.length >= 3
  LLM_PROVIDER,   \* process.env.LLM_PROVIDER
  env,            \* the credential / model identifiers that are set
  pc,             \* the await the program is suspended at, or "exited"
  exitCode,       \* -1 while running, then the process's exit code
  connectState,   \* the promise of mcp.connect: idle/pending/resolved/rejected
  anthropic,      \* this.anthropic is non-null
  gemini,         \* this.gemini is non-null
  anthropicTools, \* this.anthropicTools
  ollamaTool,     \* this.ollamaTool (this.tools in the one-provider client)
  geminiTools,    \* this.geminiTools
  rlOpen,         \* the readline interface of chatLoop is open
  query,          \* the line being processed (message)
  messages,       \* local messages of processQueryAnthropic / Ollama
  chat,           \* history of the chat session of processQueryGemini
  response,       \* the first response of the query, while it is iterated
  idx,            \* index of the block / tool call being resolved
  finalText,      \* local finalText
  \* ---- observation (history) variables, not read by the program ----
  manifest,       \* what listTools returned (toolsResult.tools)
  listCalls,      \* listTools requests issued so far
  closeCalls,     \* mcp.close requests issued so far
  connectFailedLogged, \* "Failed to connect to MCP server" was printed
  nQueries,       \* query lines dispatched so far
  prevQuery,      \* the query line before the current one ("" if none)
  chatsCreated,   \* chat sessions created (gemini.chats.create) so far
  modelReqs,      \* model requests of the current query, in order
  toolLog,        \* callTool requests of the current query, in order
  console,        \* what chatLoop printed for the current query
  failure         \* how the current query failed ("none" if it did not)

vars == << client, argv, LLM_PROVIDER, env, pc, exitCode, connectState,
           anthropic, gemini, anthropicTools, ollamaTool, geminiTools, rlOpen,
           query, messages, chat, response, idx, finalText, manifest,
           listCalls, closeCalls, connectFailedLogged,
           nQueries, prevQuery, chatsCreated, modelReqs, toolLog, console,
           failure >>

config == << client, argv, LLM_PROVIDER, env >>
handles == << anthropic, gemini >>
toolDecls == << anthropicTools, ollamaTool, geminiTools >>
locals == << messages, chat, response, idx, finalText >>
queryObs == << modelReqs, toolLog, console, failure >>

(***************************************************************************)
(* Configuration.                                                          *)
(***************************************************************************)
Clients == {"three", "two", "one"}

\* "OTHER" stands for an LLM_PROVIDER that is unset or not recognised.
Providers == {"ANTHROPIC", "OLLAMA", "GEMINI", "OTHER"}

Idents == {"ANTHROPIC_API_KEY", "ANTHROPIC_MODEL", "OLLAMA_MODEL",
           "GEMINI_API_KEY", "GEMINI_MODEL"}

\* The identifiers that belong to a provider.
Own(p) ==
  CASE p = "ANTHROPIC" -> {"ANTHROPIC_API_KEY", "ANTHROPIC_MODEL"}
    [] p = "OLLAMA"    -> {"OLLAMA_MODEL"}
    [] p = "GEMINI"    -> {"GEMINI_API_KEY", "GEMINI_MODEL"}
    [] OTHER           -> {}

\* The environments enumerated for provider p: an environment file that
\* sets p's own identifiers, but for at most MaxAbsent of them, and leaves
\* the identifiers of the other providers unset; when the selector is not
\* recognised, one that sets every identifier or none.
Envs(p) ==
  IF Own(p) = {} THEN { Idents, {} }
  ELSE { Own(p) \ a :
           a \in { s \in SUBSET Own(p) : Cardinality(s) <= MaxAbsent } }

\* The selectors enumerated for each client.  The one-provider client never
\* reads LLM_PROVIDER; the two-provider client knows no "GEMINI", which it
\* treats like any other unrecognised value.
ProvidersOf(c) ==
  CASE c = "one" -> {"OLLAMA"}
    [] c = "two" -> {"ANTHROPIC", "OLLAMA", "OTHER"}
    [] OTHER     -> Providers

IsSet(id) == id \in env

(***************************************************************************)
(* The tool process: manifests, tool calls and their results.              *)
(***************************************************************************)
\* Manifest entries: the two tools of the test server
\* (weather-server-typescript/src/test.ts, ListTools handler) and one of the
\* weather server named by processQueryGemini's priming turns.
ToolCatalog ==
  << [ name |-> "calculate_sum", description |-> "Add two numbers together",
       inputSchema |-> [ type |-> "object", properties |-> "a,b" ] ],
     [ name |-> "execute_command", description |-> "Run a shell command",
       inputSchema |-> [ type |-> "object", properties |-> "command" ] ],
     [ name |-> "get-forecast", description |-> "Get weather forecast",
       inputSchema |-> [ type |-> "object", properties |-> "latitude,longitude" ] ] >>

Min(a, b) == IF a < b THEN a ELSE b

\* The manifests listTools may return: the first n entries of the catalog.
Manifests ==
  { SubSeq(ToolCatalog, 1, n) : n \in 0..Min(MaxTools, Len(ToolCatalog)) }

Range(s) == { s[i] : i \in 1..Len(s) }

ManifestNames == { manifest[i].name : i \in 1..Len(manifest) }

\* Arguments a model may ask a tool to be called with; a tool call may carry
\* no arguments at all (undefined).
SumArgs == [ a |-> 2, b |-> 2 ]
NoArgs == [ undefined |-> TRUE ]

\* The tool-call indicators a model response may carry.
Indicators ==
  { [ name |-> "calculate_sum", args |-> SumArgs ],
    [ name |-> "execute_command", args |-> NoArgs ] }

\* JSON.stringify of tool arguments, as interpolated into a template string.
StringifyArgs(a) ==
  IF a = NoArgs THEN "undefined"
  ELSE "{\"a\":" \o ToString(a.a) \o ",\"b\":" \o ToString(a.b) \o "}"

\* The content array a tool returns (result.content).
ToolContent(name) ==
  << [ type |-> "text",
       text |-> IF name = "calculate_sum" THEN "4" ELSE "done" ] >>

RECURSIVE Join(_, _)
\* Array.prototype.join
Join(s, sep) ==
  IF Len(s) = 0 THEN ""
  ELSE IF Len(s) = 1 THEN s[1]
  ELSE s[1] \o sep \o Join(Tail(s), sep)

\* JSON.stringify(result.content)
StringifyContent(c) ==
  "[" \o Join([ i \in 1..Len(c) |->
                  "{\"type\":\"" \o c[i].type \o "\",\"text\":\"" \o c[i].text \o "\"}" ],
              ",") \o "]"

\* Contents of a conversation turn: a string, or an array of content blocks.
Str(s) == [ str |-> s ]
Blocks(c) == [ blocks |-> c ]
UserTurn(c) == [ role |-> "user", content |-> c ]

(***************************************************************************)
(* Model responses.  The text of the response to the k-th model request    *)
(* of a query is "reply k", so that a fragment of the output tells which   *)
(* response it was taken from.                                             *)
(***************************************************************************)
ReplyText(k) == "reply " \o ToString(k)

\* Sequences of at most MaxBlocks tool-call indicators.
CallSeqs == UNION { [1..n -> Indicators] : n \in 0..MaxBlocks }

\* Variant A (Anthropic): a list of content blocks.
AnthropicBlocks(k) ==
  { [ type |-> "text", text |-> ReplyText(k) ] }
    \cup { [ type |-> "tool_use", name |-> c.name, input |-> c.args ] :
             c \in Indicators }

AnthropicResponses(k) ==
  { [ content |-> c ] :
      c \in UNION { [1..n -> AnthropicBlocks(k)] : n \in 0..MaxBlocks } }

\* Variant B (Ollama): response.message, with content and an optional
\* tool_calls list (has_tool_calls is FALSE when the field is undefined).
OllamaResponses(k) ==
  { [ content |-> t, has_tool_calls |-> TRUE, tool_calls |-> c ] :
      t \in { ReplyText(k), "" }, c \in CallSeqs }
    \cup { [ content |-> t, has_tool_calls |-> FALSE, tool_calls |-> << >> ] :
             t \in { ReplyText(k), "" } }

\* Variant C (Gemini): functionCalls (undefined and empty are one case to
\* the code, which tests functionCalls?.length) and the shape of candidates:
\*   "undefined"   response.candidates is undefined
\*   "empty"       response.candidates is []
\*   "noparts"     candidates[0].content (or its parts) is undefined
\*   "emptyparts"  candidates[0].content.parts is []
\*   "text"        candidates[0].content.parts[0].text is the reply's text
GeminiShapes == { "undefined", "empty", "noparts", "emptyparts", "text" }

GeminiResponses(k) ==
  { [ functionCalls |-> c, candidates |-> sh,
      text |-> IF sh = "text" THEN ReplyText(k) ELSE "" ] :
      c \in CallSeqs, sh \in GeminiShapes }

\* A model request as the backend sees it: the conversation, and the tool
\* declarations attached to it (withTools is FALSE when the request has none).
ModelRequest(conv, withTools, tools) ==
  [ conv |-> conv, withTools |-> withTools, tools |-> tools ]

(***************************************************************************)
(* Tool Schema Adapter: connectToServer, lines 133-205.                    *)
(***************************************************************************)
AnthropicDecl(tool) ==
  [ name |-> tool.name, description |-> tool.description,
    input_schema |-> tool.inputSchema ]

OllamaDecl(tool) ==
  [ type |-> "function",
    function |-> [ name |-> tool.name, description |-> tool.description,
                   parameters |-> tool.inputSchema ] ]

\* Mutant of GeminiDecl: the description of the manifest entry is left out.
GeminiDeclNoDescription(tool) ==
  [ name |-> tool.name, description |-> "",
    parameters |-> [ type |-> "OBJECT",
                     properties |-> tool.inputSchema.properties ] ]

GeminiDecl(tool) ==
  [ name |-> tool.name, description |-> tool.description,
    parameters |-> [ type |-> "OBJECT",
                     properties |-> tool.inputSchema.properties ] ]

(***************************************************************************)
(* Configuration checks and provider dispatch.                             *)
(***************************************************************************)
\* Module-level checks of the two-provider client (index.ts 21-31) and of
\* the one-provider client (index.ts 282-284); the three-provider client
\* has none.
ModuleLoads ==
  CASE client = "two" ->
         /\ ~(LLM_PROVIDER = "OLLAMA" /\ ~IsSet("OLLAMA_MODEL"))
         /\ ~(LLM_PROVIDER = "ANTHROPIC" /\ ~IsSet("ANTHROPIC_API_KEY"))
         /\ ~(LLM_PROVIDER = "ANTHROPIC" /\ ~IsSet("ANTHROPIC_MODEL"))
    [] client = "one" -> IsSet("OLLAMA_MODEL")
    [] OTHER -> TRUE

\* The constructor's checks (three-provider client, lines 90-120); the
\* constructors of the other two clients check nothing.
ConstructorSucceeds ==
  client = "three" =>
    /\ LLM_PROVIDER = "ANTHROPIC" =>
         IsSet("ANTHROPIC_API_KEY") /\ IsSet("ANTHROPIC_MODEL")
    /\ LLM_PROVIDER = "OLLAMA" => IsSet("OLLAMA_MODEL")
    /\ LLM_PROVIDER = "GEMINI" => IsSet("GEMINI_API_KEY")

\* Mutant of Handler: every selector other than "ANTHROPIC" falls through
\* to the Ollama handler.
HandlerElseOllama ==
  IF LLM_PROVIDER = "ANTHROPIC" /\ client # "one" THEN "anthropic"
  ELSE "ollama"

\* The handler chatLoop dispatches a query to (lines 424-435; index.ts
\* 236-238 and 408).
Handler ==
  CASE client = "three" ->
         ( CASE LLM_PROVIDER = "ANTHROPIC" -> "anthropic"
             [] LLM_PROVIDER = "OLLAMA" -> "ollama"
             [] LLM_PROVIDER = "GEMINI" -> "gemini"
             [] OTHER -> "none" )
    [] client = "two" ->
         IF LLM_PROVIDER = "ANTHROPIC" THEN "anthropic" ELSE "ollama"
    [] OTHER -> "ollama"

\* The model identifier a handler passes to its backend is set.  A request
\* that names no model cannot be answered: it raises.
ModelIdSet ==
  CASE Handler = "anthropic" -> IsSet("ANTHROPIC_MODEL")
    [] Handler = "ollama" -> IsSet("OLLAMA_MODEL")
    [] Handler = "gemini" -> IsSet("GEMINI_MODEL")
    [] OTHER -> FALSE

\* Mutant of ToLowerCase: the line is compared as it was typed.
ToLowerCaseIdentity(s) == s

\* String.prototype.toLowerCase on the input lines of the model.
ToLowerCase(s) ==
  CASE s = "QUIT" -> "quit"
    [] s = "Quit" -> "quit"
    [] s = "Quit " -> "quit "
    [] OTHER -> s

\* The lines the user may type.
Lines == { "quit", "QUIT", "Quit", "hello", "Quit " }

\* The priming turns of the chat session (lines 332-358).
Priming ==
  << [ role |-> "user", content |-> Str("Hi there!") ],
     [ role |-> "model",
       content |-> Str("Great to meet you. What would you like to know?") ],
     [ role |-> "user",
       content |-> Str("I've created two usfull functions 'get-alerts', 'get-forecast' which is used to get weather conditions!") ],
     [ role |-> "model", content |-> Str("Thats Great!") ] >>

\* Mutant of Annotation: the annotation names the tool only.
AnnotationNameOnly(name, args) == "[Calling tool " \o name \o "]"

\* `[Calling tool ${toolName} with args ${JSON.stringify(toolArgs)}]`
Annotation(name, args) ==
  "[Calling tool " \o name \o " with args " \o StringifyArgs(args) \o "]"

(***************************************************************************)
(* Initial states: the process is about to load the module.                *)
(***************************************************************************)
NoResponse == [ none |-> TRUE ]

Init ==
  /\ client \in Clients
  /\ argv \in BOOLEAN
  /\ LLM_PROVIDER \in ProvidersOf(client)
  /\ env \in Envs(LLM_PROVIDER)
  /\ pc = "start"
  /\ exitCode = -1
  /\ connectState = "idle"
  /\ anthropic = FALSE
  /\ gemini = FALSE
  /\ anthropicTools = << >>
  /\ ollamaTool = << >>
  /\ geminiTools = << >>
  /\ rlOpen = FALSE
  /\ query = ""
  /\ messages = << >>
  /\ chat = << >>
  /\ response = NoResponse
  /\ idx = 0
  /\ finalText = << >>
  /\ manifest = << >>
  /\ listCalls = 0
  /\ closeCalls = 0
  /\ connectFailedLogged = FALSE
  /\ nQueries = 0
  /\ prevQuery = ""
  /\ chatsCreated = 0
  /\ modelReqs = << >>
  /\ toolLog = << >>
  /\ console = ""
  /\ failure = "none"

(***************************************************************************)
(* Ends of a stretch of execution.                                         *)
(***************************************************************************)
\* The process ends with the given exit code.
Exit(code) ==
  /\ pc' = "exited"
  /\ exitCode' = code

\* main's finally block (lines 459-462) up to its await: cleanup() calls
\* mcp.close() (lines 444-446).
Cleanup ==
  /\ pc' = "await_close"
  /\ closeCalls' = closeCalls + 1
  /\ UNCHANGED exitCode

\* Mutant of CallToolRequest: the arguments of the indicator are not passed on.
CallToolRequestNoArgs(name, args) == [ name |-> name, arguments |-> NoArgs ]

\* Mutant of CallTool: the promise of callTool is not awaited, the handler
\* goes straight on as if the result were there.
CallToolNotAwaited(name, args) ==
  /\ toolLog' = Append(toolLog, [ name |-> name, arguments |-> args ])
  /\ pc' = "await_followup"
  /\ UNCHANGED << exitCode, rlOpen, closeCalls, console, failure >>

\* The request mcp.callTool({name, arguments}) (lines 244-247, 297-300,
\* 382-385).
CallToolRequest(name, args) == [ name |-> name, arguments |-> args ]

\* The handler reaches `await this.mcp.callTool(...)`.
CallTool(name, args) ==
  /\ toolLog' = Append(toolLog, CallToolRequest(name, args))
  /\ pc' = "await_callTool"
  /\ UNCHANGED << exitCode, rlOpen, closeCalls, console, failure >>

\* The handler reaches the await of its follow-up model request.
AwaitFollowUp ==
  /\ pc' = "await_followup"
  /\ UNCHANGED << exitCode, rlOpen, closeCalls, console, failure, toolLog >>

\* The handler returns out: chatLoop prints it (line 437) and asks for the
\* next line (line 419).
QueryReturns(out) ==
  /\ console' = "\n" \o out
  /\ pc' = "await_question"
  /\ UNCHANGED << exitCode, rlOpen, closeCalls, failure, toolLog >>

\* An exception leaves the handler.  chatLoop has no catch clause: its
\* finally closes readline (lines 439-441), the exception leaves chatLoop,
\* and main's finally runs cleanup (lines 459-461).  Nothing is printed.
QueryThrows(kind) ==
  /\ failure' = kind
  /\ rlOpen' = FALSE
  /\ Cleanup
  /\ UNCHANGED << console, toolLog >>

(***************************************************************************)
(* Start of the process: module load, main, the constructor, and            *)
(* connectToServer up to `await this.mcp.listTools()` (lines 64-131,       *)
(* 450-457).                                                               *)
(***************************************************************************)
Startup ==
  /\ pc = "start"
  /\ IF ~ModuleLoads
     THEN \* a module-level check throws: the process dies
          /\ Exit(1)
          /\ UNCHANGED << connectState, anthropic, gemini, listCalls >>
     ELSE IF ~argv
     THEN \* main prints the usage line and returns (lines 451-454)
          /\ Exit(0)
          /\ UNCHANGED << connectState, anthropic, gemini, listCalls >>
     ELSE IF ~ConstructorSucceeds
     THEN \* new MCPClient() throws outside main's try: main's promise is
          \* rejected and never handled
          /\ Exit(1)
          /\ UNCHANGED << connectState, anthropic, gemini, listCalls >>
     ELSE /\ anthropic' = IF client = "three" THEN LLM_PROVIDER = "ANTHROPIC"
                          ELSE client = "two"
          /\ gemini' = (client = "three" /\ LLM_PROVIDER = "GEMINI")
          \* line 129: this.mcp.connect(this.transport), not awaited
          /\ connectState' = "pending"
          \* line 131: await this.mcp.listTools()
          /\ listCalls' = listCalls + 1
          /\ pc' = "await_listTools"
          /\ UNCHANGED exitCode
  /\ UNCHANGED << config, toolDecls, rlOpen, locals, query, manifest,
                  closeCalls, connectFailedLogged, nQueries, prevQuery,
                  chatsCreated, queryObs >>

(***************************************************************************)
(* The promise of mcp.connect (line 129).                                  *)
(***************************************************************************)
ConnectResolves ==
  /\ pc # "exited"
  /\ connectState = "pending"
  /\ connectState' = "resolved"
  /\ UNCHANGED << config, pc, exitCode, handles, toolDecls, rlOpen, locals,
                  query, manifest, listCalls, closeCalls, connectFailedLogged,
                  nQueries, prevQuery, chatsCreated, queryObs >>

ConnectRejects ==
  /\ pc # "exited"
  /\ connectState = "pending"
  /\ connectState' = "rejected"
  /\ UNCHANGED << config, pc, exitCode, handles, toolDecls, rlOpen, locals,
                  query, manifest, listCalls, closeCalls, connectFailedLogged,
                  nQueries, prevQuery, chatsCreated, queryObs >>

\* No handler was ever attached to the promise of line 129: once it is
\* rejected, the runtime raises the rejection as an uncaught exception and
\* the process dies with exit code 1, whatever the program was doing.  (A
\* runtime told to only warn lets the program carry on: the other actions
\* stay enabled.)
UnhandledRejection ==
  /\ pc # "exited"
  /\ connectState = "rejected"
  /\ Exit(1)
  /\ UNCHANGED << config, connectState, handles, toolDecls, rlOpen, locals,
                  query, manifest, listCalls, closeCalls, connectFailedLogged,
                  nQueries, prevQuery, chatsCreated, queryObs >>

(***************************************************************************)
(* connectToServer after listTools (lines 131-214), then the start of      *)
(* chatLoop (lines 408-419).                                               *)
(***************************************************************************)
\* Mutant of BuildTools: the declarations are pushed onto the list the object
\* already holds.
BuildToolsAccumulating(tools) ==
  /\ anthropicTools' =
       IF LLM_PROVIDER = "ANTHROPIC" /\ client # "one"
       THEN anthropicTools \o [ i \in 1..Len(tools) |-> AnthropicDecl(tools[i]) ]
       ELSE anthropicTools
  /\ ollamaTool' =
       IF LLM_PROVIDER = "OLLAMA"
       THEN ollamaTool \o [ i \in 1..Len(tools) |-> OllamaDecl(tools[i]) ]
       ELSE ollamaTool
  /\ geminiTools' =
       IF LLM_PROVIDER = "GEMINI" /\ client = "three"
       THEN geminiTools \o [ i \in 1..Len(tools) |-> GeminiDecl(tools[i]) ]
       ELSE geminiTools

\* Mutant of BuildTools: an empty manifest is replaced by a default tool.
BuildToolsNeverEmpty(tools) ==
  LET ts == IF tools = << >> THEN << ToolCatalog[1] >> ELSE tools IN
  /\ anthropicTools' =
       IF LLM_PROVIDER = "ANTHROPIC" /\ client # "one"
       THEN [ i \in 1..Len(ts) |-> AnthropicDecl(ts[i]) ] ELSE anthropicTools
  /\ ollamaTool' =
       IF LLM_PROVIDER = "OLLAMA"
       THEN [ i \in 1..Len(ts) |-> OllamaDecl(ts[i]) ] ELSE ollamaTool
  /\ geminiTools' =
       IF LLM_PROVIDER = "GEMINI" /\ client = "three"
       THEN [ i \in 1..Len(ts) |-> GeminiDecl(ts[i]) ] ELSE geminiTools

\* The declaration lists built from toolsResult.tools.
BuildTools(tools) ==
  CASE client = "three" ->
         \* lines 133-205: if / else if / else if
         /\ anthropicTools' = IF LLM_PROVIDER = "ANTHROPIC"
                              THEN [ i \in 1..Len(tools) |-> AnthropicDecl(tools[i]) ] ELSE anthropicTools
         /\ ollamaTool' = IF LLM_PROVIDER = "OLLAMA"
                          THEN [ i \in 1..Len(tools) |-> OllamaDecl(tools[i]) ] ELSE ollamaTool
         /\ geminiTools' = IF LLM_PROVIDER = "GEMINI"
                           THEN [ i \in 1..Len(tools) |-> GeminiDecl(tools[i]) ] ELSE geminiTools
    [] client = "two" ->
         \* index.ts 59-98
         /\ anthropicTools' = IF LLM_PROVIDER = "ANTHROPIC"
                              THEN [ i \in 1..Len(tools) |-> AnthropicDecl(tools[i]) ] ELSE anthropicTools
         /\ ollamaTool' = IF LLM_PROVIDER = "OLLAMA"
                          THEN [ i \in 1..Len(tools) |-> OllamaDecl(tools[i]) ] ELSE ollamaTool
         /\ UNCHANGED geminiTools
    [] OTHER ->
         \* index.ts 306-326
         /\ ollamaTool' = [ i \in 1..Len(tools) |-> OllamaDecl(tools[i]) ]
         /\ UNCHANGED << anthropicTools, geminiTools >>

ListToolsReturns ==
  /\ pc = "await_listTools"
  /\ \E m \in Manifests :
       /\ manifest' = m
       /\ BuildTools(m)
  \* connectToServer returns; chatLoop creates readline and asks for a line
  /\ rlOpen' = TRUE
  /\ pc' = "await_question"
  /\ UNCHANGED << config, exitCode, connectState, handles, locals, query,
                  listCalls, closeCalls, connectFailedLogged, nQueries,
                  prevQuery, chatsCreated, queryObs >>

\* listTools raises: the catch clause logs and rethrows (lines 210-213),
\* main's finally runs cleanup.
ListToolsRaises ==
  /\ pc = "await_listTools"
  /\ connectFailedLogged' = TRUE
  /\ Cleanup
  /\ UNCHANGED << config, connectState, handles, toolDecls, rlOpen, locals,
                  query, manifest, listCalls, nQueries, prevQuery,
                  chatsCreated, queryObs >>

(***************************************************************************)
(* cleanup and the end of main (lines 444-446, 459-462).                   *)
(***************************************************************************)
\* mcp.close() returns: process.exit(0).
CloseReturns ==
  /\ pc = "await_close"
  /\ Exit(0)
  /\ UNCHANGED << config, connectState, handles, toolDecls, rlOpen, locals,
                  query, manifest, listCalls, closeCalls, connectFailedLogged,
                  nQueries, prevQuery, chatsCreated, queryObs >>

\* mcp.close() raises: process.exit(0) is skipped, main's promise is
\* rejected and never handled.
CloseRaises ==
  /\ pc = "await_close"
  /\ Exit(1)
  /\ UNCHANGED << config, connectState, handles, toolDecls, rlOpen, locals,
                  query, manifest, listCalls, closeCalls, connectFailedLogged,
                  nQueries, prevQuery, chatsCreated, queryObs >>

(***************************************************************************)
(* chatLoop: one line is read and dispatched (lines 418-438).              *)
(***************************************************************************)
\* The first model request of each handler (lines 227-232, 282-286, 365-369)
\* and the follow-up request after a tool result (lines 258-262, 312-315,
\* 391).  The chat session of the Gemini handler carries geminiConfig, and
\* with it the tool declarations, on every message it sends.
\* Mutant of AnthropicFirstRequest: the query of the line before is sent
\* along.
AnthropicFirstRequestWithHistory(msgs) ==
  ModelRequest(<< UserTurn(Str(prevQuery)) >> \o msgs, TRUE, anthropicTools)

AnthropicFirstRequest(msgs) == ModelRequest(msgs, TRUE, anthropicTools)

\* Mutant of AnthropicFollowUpRequest: the follow-up request is a copy of the
\* first one, tool declarations included.
AnthropicFollowUpWithTools(msgs) == ModelRequest(msgs, TRUE, anthropicTools)

AnthropicFollowUpRequest(msgs) == ModelRequest(msgs, FALSE, << >>)

\* Mutant of OllamaFirstRequest: the first request is sent without the
\* declarations built at connection time.
OllamaFirstRequestNoTools(msgs) == ModelRequest(msgs, TRUE, << >>)

OllamaFirstRequest(msgs) == ModelRequest(msgs, TRUE, ollamaTool)

\* Mutant of OllamaFollowUpRequest: the follow-up request carries the tool
\* declarations like the first one.
OllamaFollowUpWithTools(msgs) == ModelRequest(msgs, TRUE, ollamaTool)

OllamaFollowUpRequest(msgs) == ModelRequest(msgs, FALSE, << >>)

GeminiRequest(history, message) ==
  ModelRequest(Append(history, UserTurn(Str(message))), TRUE, geminiTools)

\* A handler returned without a value (lines 225, 330), or no handler was
\* selected (lines 424-435): chatLoop prints "\n" + undefined.
ReturnsUndefined ==
  /\ console' = "\n" \o "undefined"
  /\ pc' = "await_question"
  /\ modelReqs' = << >>

\* The handler issues its first model request and awaits it.
AwaitFirst(req) ==
  /\ console' = ""
  /\ pc' = "await_first"
  /\ modelReqs' = << req >>

Dispatch(line) ==
  CASE Handler = "anthropic" ->
         /\ messages' = << UserTurn(Str(line)) >>
         /\ UNCHANGED << chat, chatsCreated >>
         /\ IF client = "three" /\ ~anthropic
            THEN ReturnsUndefined
            ELSE AwaitFirst(AnthropicFirstRequest(messages'))
    [] Handler = "ollama" ->
         /\ messages' = << UserTurn(Str(line)) >>
         /\ UNCHANGED << chat, chatsCreated >>
         /\ AwaitFirst(OllamaFirstRequest(messages'))
    [] Handler = "gemini" ->
         /\ messages' = << >>
         /\ IF ~gemini
            THEN ReturnsUndefined /\ UNCHANGED << chat, chatsCreated >>
            ELSE \* a new chat session, seeded with the priming turns
                 /\ chat' = Priming
                 /\ chatsCreated' = chatsCreated + 1
                 /\ AwaitFirst(GeminiRequest(Priming, line))
    [] OTHER ->
         /\ messages' = << >>
         /\ UNCHANGED << chat, chatsCreated >>
         /\ ReturnsUndefined

ReadLine ==
  /\ pc = "await_question"
  /\ \E line \in Lines :
       /\ query' = line
       \* the locals and the observations of the query before are gone
       /\ response' = NoResponse
       /\ idx' = 0
       /\ finalText' = << >>
       /\ toolLog' = << >>
       /\ failure' = "none"
       /\ IF ToLowerCase(line) = "quit"
          THEN \* break; finally rl.close(); main's finally
               /\ rlOpen' = FALSE
               /\ Cleanup
               /\ console' = ""
               /\ modelReqs' = << >>
               /\ messages' = << >>
               /\ UNCHANGED << chat, nQueries, prevQuery, chatsCreated >>
          ELSE /\ nQueries < MaxQueries
               /\ nQueries' = nQueries + 1
               /\ prevQuery' = query
               /\ Dispatch(line)
               /\ UNCHANGED << exitCode, rlOpen, closeCalls >>
  /\ UNCHANGED << config, connectState, handles, toolDecls, manifest,
                  listCalls, connectFailedLogged >>

(***************************************************************************)
(* processQueryAnthropic (lines 217-271).                                  *)
(***************************************************************************)
RECURSIVE AnthropicScan(_, _, _)
\* The for loop over response.content from block i on, up to the next
\* tool_use block: text blocks are pushed to finalText (lines 237-240).
AnthropicScan(content, i, ft) ==
  IF i > Len(content) THEN [ idx |-> i, finalText |-> ft ]
  ELSE IF content[i].type = "text"
       THEN AnthropicScan(content, i + 1, Append(ft, content[i].text))
  ELSE IF content[i].type = "tool_use" THEN [ idx |-> i, finalText |-> ft ]
  ELSE AnthropicScan(content, i + 1, ft)

\* The loop runs on from block i: to the next callTool or to the return.
AnthropicLoop(content, i, ft) ==
  LET s == AnthropicScan(content, i, ft) IN
  /\ finalText' = s.finalText
  /\ idx' = s.idx
  /\ IF s.idx <= Len(content)
     THEN CallTool(content[s.idx].name, content[s.idx].input)
     ELSE QueryReturns(Join(s.finalText, "\n"))

\* lines 264-266: response.content[0].type === "text" ? ...text : ""
AnthropicFollowUpText(r) ==
  IF r.content[1].type = "text" THEN r.content[1].text ELSE ""

AnthropicFirstResponse ==
  /\ pc = "await_first"
  /\ Handler = "anthropic"
  /\ ModelIdSet
  /\ \E r \in AnthropicResponses(1) :
       /\ response' = r
       /\ AnthropicLoop(r.content, 1, << >>)
  /\ UNCHANGED << config, connectState, handles, toolDecls, query, messages,
                  chat, manifest, listCalls, connectFailedLogged, nQueries,
                  prevQuery, chatsCreated, modelReqs >>

\* Mutant of AnthropicToolResult: the follow-up request is issued twice.
AnthropicToolResultTwice ==
  /\ pc = "await_callTool"
  /\ Handler = "anthropic"
  /\ LET block == response.content[idx]
         result == ToolContent(block.name)
         msgs == Append(messages, UserTurn(Blocks(result)))
     IN /\ block.name \in ManifestNames
        /\ finalText' = Append(finalText, Annotation(block.name, block.input))
        /\ messages' = msgs
        /\ modelReqs' = modelReqs \o << AnthropicFollowUpRequest(msgs),
                                        AnthropicFollowUpRequest(msgs) >>
  /\ AwaitFollowUp
  /\ UNCHANGED << config, connectState, handles, toolDecls, query, chat,
                  response, idx, manifest, listCalls, connectFailedLogged,
                  nQueries, prevQuery, chatsCreated >>

\* callTool returns (lines 248-262).  The tool process answers only for
\* the tools of its manifest.
AnthropicToolResult ==
  /\ pc = "await_callTool"
  /\ Handler = "anthropic"
  /\ LET block == response.content[idx]
         result == ToolContent(block.name)
         msgs == Append(messages, UserTurn(Blocks(result)))
     IN /\ block.name \in ManifestNames
        /\ finalText' = Append(finalText, Annotation(block.name, block.input))
        /\ messages' = msgs
        /\ modelReqs' = Append(modelReqs, AnthropicFollowUpRequest(msgs))
  /\ AwaitFollowUp
  /\ UNCHANGED << config, connectState, handles, toolDecls, query, chat,
                  response, idx, manifest, listCalls, connectFailedLogged,
                  nQueries, prevQuery, chatsCreated >>

\* The follow-up response (lines 264-268): reading content[0] of an empty
\* content list raises a TypeError.
AnthropicFollowUp ==
  /\ pc = "await_followup"
  /\ Handler = "anthropic"
  /\ ModelIdSet
  /\ \E r \in AnthropicResponses(Len(modelReqs)) :
       IF Len(r.content) = 0
       THEN QueryThrows("type") /\ UNCHANGED << finalText, idx >>
       ELSE AnthropicLoop(response.content, idx + 1,
                          Append(finalText, AnthropicFollowUpText(r)))
  /\ UNCHANGED << config, connectState, handles, toolDecls, query, messages,
                  chat, response, manifest, listCalls, connectFailedLogged,
                  nQueries, prevQuery, chatsCreated, modelReqs >>

(***************************************************************************)
(* processQueryOllama (lines 274-326; processQuery, index.ts 338-390).     *)
(***************************************************************************)
\* Mutant of OllamaFirstFragments: the content of the first response is
\* pushed whether or not it carries tool calls.
OllamaFirstFragmentsAlways(r) == << r.content >>

\* lines 290-291: the text branch is taken only when tool_calls is falsy;
\* an empty list is truthy.
OllamaFirstFragments(r) ==
  IF ~r.has_tool_calls THEN << r.content >> ELSE << >>

\* line 316: response.message.content || ""
OllamaFollowUpText(r) == IF r.content # "" THEN r.content ELSE ""

\* The for loop over tool_calls runs on from call i.
OllamaLoop(calls, i, ft) ==
  /\ finalText' = ft
  /\ idx' = i
  /\ IF i <= Len(calls)
     THEN CallTool(calls[i].name, calls[i].args)
     ELSE QueryReturns(Join(ft, "\n"))

OllamaFirstResponse ==
  /\ pc = "await_first"
  /\ Handler = "ollama"
  /\ ModelIdSet
  /\ \E r \in OllamaResponses(1) :
       /\ response' = r
       /\ OllamaLoop(r.tool_calls, 1, OllamaFirstFragments(r))
  /\ UNCHANGED << config, connectState, handles, toolDecls, query, messages,
                  chat, manifest, listCalls, connectFailedLogged, nQueries,
                  prevQuery, chatsCreated, modelReqs >>

\* Mutant of OllamaToolResult: the tool result is put in front of the
\* conversation instead of being appended.
OllamaToolResultPrepends ==
  /\ pc = "await_callTool"
  /\ Handler = "ollama"
  /\ LET call == response.tool_calls[idx]
         result == ToolContent(call.name)
         msgs == << UserTurn(Str(StringifyContent(result))) >> \o messages
     IN /\ call.name \in ManifestNames
        /\ finalText' = Append(finalText, Annotation(call.name, call.args))
        /\ messages' = msgs
        /\ modelReqs' = Append(modelReqs, OllamaFollowUpRequest(msgs))
  /\ AwaitFollowUp
  /\ UNCHANGED << config, connectState, handles, toolDecls, query, chat,
                  response, idx, manifest, listCalls, connectFailedLogged,
                  nQueries, prevQuery, chatsCreated >>

\* callTool returns (lines 302-315).
OllamaToolResult ==
  /\ pc = "await_callTool"
  /\ Handler = "ollama"
  /\ LET call == response.tool_calls[idx]
         result == ToolContent(call.name)
         msgs == Append(messages, UserTurn(Str(StringifyContent(result))))
     IN /\ call.name \in ManifestNames
        /\ finalText' = Append(finalText, Annotation(call.name, call.args))
        /\ messages' = msgs
        /\ modelReqs' = Append(modelReqs, OllamaFollowUpRequest(msgs))
  /\ AwaitFollowUp
  /\ UNCHANGED << config, connectState, handles, toolDecls, query, chat,
                  response, idx, manifest, listCalls, connectFailedLogged,
                  nQueries, prevQuery, chatsCreated >>

OllamaFollowUp ==
  /\ pc = "await_followup"
  /\ Handler = "ollama"
  /\ ModelIdSet
  /\ \E r \in OllamaResponses(Len(modelReqs)) :
       OllamaLoop(response.tool_calls, idx + 1,
                  Append(finalText, OllamaFollowUpText(r)))
  /\ UNCHANGED << config, connectState, handles, toolDecls, query, messages,
                  chat, response, manifest, listCalls, connectFailedLogged,
                  nQueries, prevQuery, chatsCreated, modelReqs >>

\* Mutant of OllamaFollowUpRaises: there is no try block around the
\* follow-up request, its failure leaves the handler.
OllamaFollowUpRaisesPropagates ==
  /\ pc = "await_followup"
  /\ Handler = "ollama"
  /\ QueryThrows("model")
  /\ UNCHANGED << config, connectState, handles, toolDecls, locals, query,
                  manifest, listCalls, connectFailedLogged, nQueries,
                  prevQuery, chatsCreated, modelReqs >>

\* The follow-up request raises: the catch clause pushes the apology and a
\* newline (lines 317-321) and the loop goes on.
OllamaFollowUpRaises ==
  /\ pc = "await_followup"
  /\ Handler = "ollama"
  /\ OllamaLoop(response.tool_calls, idx + 1,
                finalText \o << "\nEn error occured.\n", "\n" >>)
  /\ UNCHANGED << config, connectState, handles, toolDecls, query, messages,
                  chat, response, manifest, listCalls, connectFailedLogged,
                  nQueries, prevQuery, chatsCreated, modelReqs >>

(***************************************************************************)
(* processQueryGemini (lines 329-405).                                     *)
(***************************************************************************)
\* lines 399-401: the text of the first part of the first candidate.
GeminiFirstText(r) == IF r.candidates = "text" THEN r.text ELSE ""

\* lines 393-395: response.text ? response.text : ""
GeminiFollowUpText(r) == IF r.candidates = "text" THEN r.text ELSE ""

\* The turn the chat session keeps of a model response.
ModelTurn(text) == [ role |-> "model", content |-> Str(text) ]

\* The for loop over functionCalls runs on from call i.
GeminiLoop(calls, i, ft) ==
  /\ finalText' = ft
  /\ idx' = i
  /\ IF i <= Len(calls)
     THEN CallTool(calls[i].name, calls[i].args)
     ELSE QueryReturns(Join(ft, "\n"))

GeminiFirstResponse ==
  /\ pc = "await_first"
  /\ Handler = "gemini"
  /\ ModelIdSet
  /\ \E r \in GeminiResponses(1) :
       /\ response' = r
       /\ chat' = chat \o << UserTurn(Str(query)), ModelTurn(r.text) >>
       /\ IF Len(r.functionCalls) > 0
          THEN GeminiLoop(r.functionCalls, 1, << >>)
          ELSE IF r.candidates \in { "empty", "emptyparts" }
          THEN \* candidates[0] or parts[0] is undefined: a TypeError
               QueryThrows("type") /\ UNCHANGED << finalText, idx >>
          ELSE GeminiLoop(<< >>, 1, << GeminiFirstText(r) >>)
  /\ UNCHANGED << config, connectState, handles, toolDecls, query, messages,
                  manifest, listCalls, connectFailedLogged, nQueries,
                  prevQuery, chatsCreated, modelReqs >>

\* callTool returns (lines 386-391): the result goes back into the same
\* chat session.
GeminiToolResult ==
  /\ pc = "await_callTool"
  /\ Handler = "gemini"
  /\ LET call == response.functionCalls[idx]
         result == ToolContent(call.name)
     IN /\ call.name \in ManifestNames
        /\ finalText' = Append(finalText, Annotation(call.name, call.args))
        /\ modelReqs' = Append(modelReqs,
                               GeminiRequest(chat, StringifyContent(result)))
  /\ AwaitFollowUp
  /\ UNCHANGED << config, connectState, handles, toolDecls, query, messages,
                  chat, response, idx, manifest, listCalls,
                  connectFailedLogged, nQueries, prevQuery, chatsCreated >>

GeminiFollowUp ==
  /\ pc = "await_followup"
  /\ Handler = "gemini"
  /\ ModelIdSet
  /\ \E r \in GeminiResponses(Len(modelReqs)) :
       LET sent == modelReqs[Len(modelReqs)].conv IN
       /\ chat' = Append(sent, ModelTurn(r.text))
       /\ GeminiLoop(response.functionCalls, idx + 1,
                     Append(finalText, GeminiFollowUpText(r)))
  /\ UNCHANGED << config, connectState, handles, toolDecls, query, messages,
                  response, manifest, listCalls, connectFailedLogged,
                  nQueries, prevQuery, chatsCreated, modelReqs >>

(***************************************************************************)
(* Failures that leave the handler.                                        *)
(***************************************************************************)
\* Mutant of CallToolRaises: a call that raised is sent to callTool again.
CallToolRaisesRetries ==
  /\ pc = "await_callTool"
  /\ IF Len(toolLog) <= MaxBlocks
     THEN /\ toolLog' = Append(toolLog, toolLog[Len(toolLog)])
          /\ UNCHANGED << pc, exitCode, rlOpen, closeCalls, console, failure >>
     ELSE QueryThrows("tool")
  /\ UNCHANGED << config, connectState, handles, toolDecls, locals, query,
                  manifest, listCalls, connectFailedLogged, nQueries,
                  prevQuery, chatsCreated, modelReqs >>

\* callTool raises (lines 244, 297, 382): no handler catches it.
CallToolRaises ==
  /\ pc = "await_callTool"
  /\ QueryThrows("tool")
  /\ UNCHANGED << config, connectState, handles, toolDecls, locals, query,
                  manifest, listCalls, connectFailedLogged, nQueries,
                  prevQuery, chatsCreated, modelReqs >>

\* A model request raises outside the try block of lines 311-321: the first
\* request of any handler, or a follow-up request of the Anthropic or the
\* Gemini handler.
ModelRaises ==
  /\ \/ pc = "await_first"
     \/ pc = "await_followup" /\ Handler # "ollama"
  /\ QueryThrows("model")
  /\ UNCHANGED << config, connectState, handles, toolDecls, locals, query,
                  manifest, listCalls, connectFailedLogged, nQueries,
                  prevQuery, chatsCreated, modelReqs >>

(***************************************************************************)
(* The specification.                                                      *)
(***************************************************************************)
Next ==
  \/ Startup
  \/ ConnectResolves
  \/ ConnectRejects
  \/ UnhandledRejection
  \/ ListToolsReturns
  \/ ListToolsRaises
  \/ ReadLine
  \/ AnthropicFirstResponse
  \/ AnthropicToolResult
  \/ AnthropicFollowUp
  \/ OllamaFirstResponse
  \/ OllamaToolResult
  \/ OllamaFollowUp
  \/ OllamaFollowUpRaises
  \/ GeminiFirstResponse
  \/ GeminiToolResult
  \/ GeminiFollowUp
  \/ CallToolRaises
  \/ ModelRaises
  \/ CloseReturns
  \/ CloseRaises

Spec == Init /\ [][Next]_vars

(***************************************************************************)
(* The operations a handler awaits come to an end: every model request and *)
(* every tool invocation eventually returns or raises.                     *)
(***************************************************************************)
OperationCompletes ==
  \/ AnthropicFirstResponse
  \/ AnthropicToolResult
  \/ AnthropicFollowUp
  \/ OllamaFirstResponse
  \/ OllamaToolResult
  \/ OllamaFollowUp
  \/ OllamaFollowUpRaises
  \/ GeminiFirstResponse
  \/ GeminiToolResult
  \/ GeminiFollowUp
  \/ CallToolRaises
  \/ ModelRaises

FairSpec == Spec /\ WF_vars(OperationCompletes)

(***************************************************************************)
(* The Tool Schema Adapter on its own: connectToServer is called again on  *)
(* the same object, whose listTools request returns another manifest, and  *)
(* the declaration lists are built again (lines 131-205).                  *)
(***************************************************************************)
ToolSchemaAdapter ==
  /\ pc = "await_listTools"
  /\ listCalls <= MaxAdaptations
  /\ \E m \in Manifests :
       /\ manifest' = m
       /\ BuildTools(m)
  /\ listCalls' = listCalls + 1
  /\ UNCHANGED << config, pc, exitCode, connectState, handles, rlOpen,
                  locals, query, closeCalls, connectFailedLogged, nQueries,
                  prevQuery, chatsCreated, queryObs >>

AdapterNext ==
  \/ Startup
  \/ ToolSchemaAdapter

AdapterSpec == Init /\ [][AdapterNext]_vars

(***************************************************************************)
(* The test tool server (weather-server-typescript/src/test.ts) on its     *)
(* own.  It keeps no state between requests; here manifest is the answer   *)
(* to the last list-tools request, toolLog the call-tool requests received *)
(* and response the answer to the last of them.                            *)
(***************************************************************************)
\* The tools the list-tools handler returns (test.ts 158-186).
ServerTools == << ToolCatalog[1], ToolCatalog[2] >>

\* The call-tool requests a client may send: the advertised names and one
\* that is not advertised, with or without arguments.
ServerRequests ==
  { [ name |-> n, arguments |-> a ] :
      n \in { "calculate_sum", "execute_command", "get-forecast" },
      a \in { SumArgs, NoArgs } }

\* The call-tool handler (test.ts 189-202): threw is "" when it returns.
\* Destructuring undefined arguments raises a TypeError.
CallToolHandler(request) ==
  IF request.name = "calculate_sum"
  THEN IF request.arguments = NoArgs
       THEN [ threw |-> "TypeError", content |-> << >> ]
       ELSE [ threw |-> "",
              content |-> << [ type |-> "text",
                               text |-> ToString(request.arguments.a
                                                 + request.arguments.b) ] >> ]
  ELSE [ threw |-> "Tool not found", content |-> << >> ]

ServerInit ==
  /\ Init
  /\ client = "three"
  /\ argv
  /\ LLM_PROVIDER = "OLLAMA"
  /\ env = Own("OLLAMA")

ServerListTools ==
  /\ listCalls < MaxRequests
  /\ listCalls' = listCalls + 1
  /\ manifest' = ServerTools
  /\ UNCHANGED << config, pc, exitCode, connectState, handles, toolDecls,
                  rlOpen, locals, query, closeCalls, connectFailedLogged,
                  nQueries, prevQuery, chatsCreated, queryObs >>

ServerCallTool ==
  /\ Len(toolLog) < MaxRequests
  /\ \E request \in ServerRequests :
       /\ toolLog' = Append(toolLog, request)
       /\ response' = CallToolHandler(request)
  /\ UNCHANGED << config, pc, exitCode, connectState, handles, toolDecls,
                  rlOpen, query, messages, chat, idx, finalText, manifest,
                  listCalls, closeCalls, connectFailedLogged, nQueries,
                  prevQuery, chatsCreated, modelReqs, console, failure >>

ServerNext ==
  \/ ServerListTools
  \/ ServerCallTool

ServerSpec == ServerInit /\ [][ServerNext]_vars

(***************************************************************************)
(* Vocabulary of the properties.                                           *)
(***************************************************************************)
\* A query is being processed: the program is suspended inside a handler.
InQuery == pc \in { "await_first", "await_callTool", "await_followup" }

\* The driver loop has not ended and the MCP connection has not been closed.
SessionAlive ==
  /\ pc \in { "await_question", "await_first", "await_callTool",
              "await_followup" }
  /\ rlOpen
  /\ closeCalls = 0

\* The handler of the current query has received its first response.
Responded == response # NoResponse

\* The tool-call indicators of a first response, in order, as the callTool
\* requests they stand for.
RECURSIVE ToolUses(_)
ToolUses(content) ==
  IF Len(content) = 0 THEN << >>
  ELSE IF Head(content).type = "tool_use"
       THEN << [ name |-> Head(content).name,
                 arguments |-> Head(content).input ] >>
              \o ToolUses(Tail(content))
  ELSE ToolUses(Tail(content))

Requested(r) ==
  CASE Handler = "anthropic" -> ToolUses(r.content)
    [] Handler = "ollama" ->
         [ i \in 1..Len(r.tool_calls) |->
             [ name |-> r.tool_calls[i].name,
               arguments |-> r.tool_calls[i].args ] ]
    [] OTHER ->
         [ i \in 1..Len(r.functionCalls) |->
             [ name |-> r.functionCalls[i].name,
               arguments |-> r.functionCalls[i].args ] ]

\* The texts a first response carries, in order.
RECURSIVE TextsOf(_)
TextsOf(content) ==
  IF Len(content) = 0 THEN << >>
  ELSE IF Head(content).type = "text"
       THEN << Head(content).text >> \o TextsOf(Tail(content))
  ELSE TextsOf(Tail(content))

CarriesText(r) ==
  CASE Handler = "anthropic" -> TextsOf(r.content) # << >>
    [] Handler = "ollama" -> r.content # ""
    [] OTHER -> r.candidates = "text"

\* The text a response without tool calls is to be answered with.
ExtractedText(r) ==
  CASE Handler = "anthropic" -> Join(TextsOf(r.content), "\n")
    [] Handler = "ollama" -> r.content
    [] OTHER -> r.text

IsPrefix(s, t) == Len(s) <= Len(t) /\ s = SubSeq(t, 1, Len(s))

\* The annotations a handler can push.
Annotations ==
  { "[Calling tool " \o c.name \o " with args " \o StringifyArgs(c.args) \o "]" :
      c \in Indicators }

\* The tool calls of the current query that have returned.
Resolved == Cardinality({ i \in 1..Len(finalText) : finalText[i] \in Annotations })

(***************************************************************************)
(* C1.  A model request that raises during a query (the first request of   *)
(* any variant, a follow-up request of Variant A or C) is caught at the    *)
(* query boundary and reported as the query's output, and the driver goes  *)
(* on to ask for the next line with the session alive.                     *)
(* The code has no catch clause around the handler: the step in which the  *)
(* request raises ends in main's finally block, with mcp.close requested.  *)
(***************************************************************************)
C1_ModelFailureCaught ==
  [][ (failure' = "model" /\ pc # pc')
        => (pc' = "await_question" /\ SessionAlive' /\ console' # "") ]_vars

(***************************************************************************)
(* C2.  When callTool raises, only the query's processing pass ends: the   *)
(* error is reported as the query's output and the driver asks for the     *)
(* next line, for every variant.                                           *)
(* In the code the exception ends the driver loop and the session.         *)
(***************************************************************************)
C2_ToolFailureEndsQueryOnly ==
  [][ (failure' = "tool" /\ pc # pc')
        => (pc' = "await_question" /\ SessionAlive' /\ console' # "") ]_vars

(***************************************************************************)
(* C3.  Variant C: the chat session that receives the second query of a    *)
(* session already holds the turns of the first one, and the priming       *)
(* turns are seeded once per session.                                      *)
(* The code creates a new chat session, seeded anew, in every query.       *)
(***************************************************************************)
C3_ChatHistoryPersists ==
  (Handler = "gemini" /\ nQueries >= 2 /\ pc = "await_first") =>
    LET conv == modelReqs[1].conv IN
    /\ \E i \in 1..(Len(conv) - 1) : conv[i] = UserTurn(Str(prevQuery))
    /\ chatsCreated = 1

(***************************************************************************)
(* C4.  Once connectToServer was started, mcp.close is requested exactly   *)
(* once, and before the process exits, however the session ends.           *)
(* Fails through the promise of mcp.connect, which nothing awaits (C5):    *)
(* its rejection ends the process without main's finally block.            *)
(***************************************************************************)
C4_ClosedOnceBeforeExit ==
  /\ closeCalls <= 1
  /\ (pc = "exited" /\ connectState # "idle") => closeCalls = 1

(***************************************************************************)
(* C5.  listTools is requested exactly once per session, and never while   *)
(* the connect operation is still pending.                                 *)
(* The code starts connect without awaiting it and requests listTools in   *)
(* the same stretch.                                                       *)
(***************************************************************************)
C5_ListToolsAfterConnect ==
  /\ listCalls <= 1
  /\ pc \notin { "start", "exited" } => listCalls = 1
  /\ ~(pc = "await_listTools" /\ connectState = "pending")

(***************************************************************************)
(* C6.  If an identifier of the selected provider is absent, construction  *)
(* fails before any connection is opened and before any model request;     *)
(* the identifiers of the other providers are not required.                *)
(* The three-provider client never checks GEMINI_MODEL.                    *)
(***************************************************************************)
C6_ConfigFailsFast ==
  /\ (Own(LLM_PROVIDER) \ env # {}) =>
       /\ connectState = "idle"
       /\ listCalls = 0
       /\ modelReqs = << >>
       /\ pc \in { "start", "exited" }
  /\ (Own(LLM_PROVIDER) \subseteq env /\ argv /\ pc # "start") =>
       connectState # "idle"

C8_TextOnlyResponse ==
  (Responded /\ Requested(response) = << >>) =>
    /\ Len(modelReqs) = 1
    /\ toolLog = << >>
    /\ failure = "none"
    /\ pc = "await_question" => console = "\n" \o ExtractedText(response)

(***************************************************************************)
(* C9, as stated.  Every tool-call indicator of the first response has led *)
(* to exactly one callTool request, unchanged and in order, when the       *)
(* query's processing pass is over.                                        *)
(* A callTool or a follow-up request that raises ends the pass before the  *)
(* remaining indicators are reached.                                       *)
(***************************************************************************)
C9_EveryIndicatorCalled ==
  (Responded /\ (pc = "await_question" \/ failure # "none"))
    => toolLog = Requested(response)

(***************************************************************************)
(* C9, amended.  The callTool requests of a query are at every moment the  *)
(* first indicators of its first response, unchanged and in order, one     *)
(* request each; when the handler returns, every indicator has been        *)
(* requested.                                                              *)
(***************************************************************************)
C9_CallsFollowIndicators ==
  /\ ~Responded => toolLog = << >>
  /\ Responded =>
       /\ IsPrefix(toolLog, Requested(response))
       /\ pc = "await_question" => toolLog = Requested(response)
       /\ pc = "await_callTool" => Len(toolLog) = Resolved + 1
       /\ pc = "await_followup" => Len(toolLog) = Resolved

\* A query with two different tool calls has returned.
C9_Witness ==
  /\ Responded
  /\ pc = "await_question"
  /\ Len(toolLog) = 2
  /\ toolLog[1] # toolLog[2]

(***************************************************************************)
(* C10, as stated.  Variant A: a query whose first response holds tool-use *)
(* blocks makes two model requests in all; the second carries the tool     *)
(* results and no tool declarations.                                       *)
(* The code issues one follow-up request per tool-use block.               *)
(***************************************************************************)
C10_OneFollowUp ==
  (Handler = "anthropic" /\ Responded /\ Requested(response) # << >>) =>
    /\ Len(modelReqs) <= 2
    /\ pc = "await_question" =>
         /\ Len(modelReqs) = 2
         /\ ~modelReqs[2].withTools
         /\ Len(modelReqs[2].conv) = 1 + Len(toolLog)

\* The conversation of the follow-up request after the k-th tool result of
\* Variant A: the query, then the k results, all with role user.
C10_FollowUpConv(k) ==
  << [ role |-> "user", content |-> [ str |-> query ] ] >>
    \o [ j \in 1..k |->
           [ role |-> "user",
             content |-> [ blocks |-> ToolContent(toolLog[j].name) ] ] ]

(***************************************************************************)
(* C10, amended.  Variant A issues one follow-up model request per         *)
(* tool-use block, as soon as that block's callTool has returned: 1 + n    *)
(* requests when the handler returns.  The k-th follow-up carries the      *)
(* query and the first k tool results and no tool declarations, and the    *)
(* fragment pushed for it is the text of the reply's first block, or the   *)
(* empty string when that block is not text.                               *)
(***************************************************************************)
C10_FollowUpPerToolUse ==
  (Handler = "anthropic" /\ Responded) =>
    /\ Len(modelReqs) = 1 + Resolved
    /\ pc = "await_question" =>
         Len(modelReqs) = 1 + Len(Requested(response))
    /\ \A k \in 1..Resolved :
         /\ modelReqs[k + 1] =
              [ conv |-> C10_FollowUpConv(k), withTools |-> FALSE,
                tools |-> << >> ]
    /\ \A i \in 1..Len(finalText) :
         (i > 1 /\ finalText[i - 1] \in Annotations) =>
           finalText[i] \in { "", ReplyText(1 +
              Cardinality({ j \in 1..(i - 1) : finalText[j] \in Annotations })) }

\* Variant A has returned from a query with two tool-use blocks.
C10_Witness ==
  /\ Handler = "anthropic"
  /\ Responded
  /\ pc = "await_question"
  /\ Len(Requested(response)) = 2
  /\ Len(modelReqs) = 3

(***************************************************************************)
(* C11, as stated.  Variant B: a query whose first response holds n >= 1   *)
(* tool calls makes exactly 1 + n model requests.                          *)
(* A callTool that raises ends the pass with fewer requests.               *)
(***************************************************************************)
C11_OnePlusNRequests ==
  ( /\ Handler = "ollama"
    /\ Responded
    /\ Len(response.tool_calls) >= 1
    /\ (pc = "await_question" \/ failure # "none") )
    => Len(modelReqs) = 1 + Len(response.tool_calls)

\* The conversation of the follow-up request after the k-th tool result of
\* Variant B: the query, then the k results as JSON text, all with role user.
C11_FollowUpConv(k) ==
  << [ role |-> "user", content |-> [ str |-> query ] ] >>
    \o [ j \in 1..k |->
           [ role |-> "user",
             content |->
               [ str |-> IF toolLog[j].name = "calculate_sum"
                         THEN "[{\"type\":\"text\",\"text\":\"4\"}]"
                         ELSE "[{\"type\":\"text\",\"text\":\"done\"}]" ] ] ]

(***************************************************************************)
(* C11, amended.  Variant B: the first request carries the query and the   *)
(* tool declarations; after each callTool that returns, the result is      *)
(* appended to the history as a user turn and one follow-up request        *)
(* without tool declarations is issued, before the next tool call is sent  *)
(* to callTool: at every moment there is one follow-up request per         *)
(* returned tool call, and 1 + n requests when the handler returns.        *)
(***************************************************************************)
C11_FollowUpPerToolCall ==
  (Handler = "ollama" /\ Responded) =>
    /\ Len(modelReqs) = 1 + Resolved
    /\ modelReqs[1] =
         [ conv |-> << [ role |-> "user", content |-> [ str |-> query ] ] >>,
           withTools |-> TRUE, tools |-> ollamaTool ]
    /\ \A k \in 1..Resolved :
         modelReqs[k + 1] =
           [ conv |-> C11_FollowUpConv(k), withTools |-> FALSE,
             tools |-> << >> ]
    /\ pc = "await_callTool" => Len(toolLog) = Len(modelReqs)
    /\ pc = "await_followup" => Len(toolLog) = Len(modelReqs) - 1
    /\ pc = "await_question" =>
         Len(modelReqs) = 1 + Len(response.tool_calls)

\* Variant B has returned from a query with two tool calls.
C11_Witness ==
  /\ Handler = "ollama"
  /\ Responded
  /\ pc = "await_question"
  /\ Len(response.tool_calls) = 2
  /\ Len(modelReqs) = 3
  /\ messages = C11_FollowUpConv(2)

(***************************************************************************)
(* C12.  Variant B: whatever the outcome of a follow-up model request (it  *)
(* returns or it raises), the query does not fail and the session stays    *)
(* alive; the fragment pushed is the reply's text or, when the request     *)
(* raised, the fixed apology followed by a newline fragment; the next tool *)
(* call of the response, if any, is sent to callTool, and after the last   *)
(* one the output is returned and printed and the next line is asked for.  *)
(***************************************************************************)
C12_FollowUpFailureSwallowed ==
  [][ ( /\ pc = "await_followup"
        /\ Handler = "ollama"
        /\ connectState # "rejected"
        /\ pc' # pc )
      => /\ failure' = "none"
         /\ SessionAlive'
         /\ \/ finalText' = Append(finalText, ReplyText(Len(modelReqs)))
            \/ finalText' = Append(finalText, "")
            \/ finalText' = finalText \o << "\nEn error occured.\n", "\n" >>
         /\ modelReqs' = modelReqs
         /\ idx' = idx + 1
         /\ IF idx < Len(response.tool_calls)
            THEN /\ pc' = "await_callTool"
                 /\ toolLog' = Append(toolLog,
                      [ name |-> response.tool_calls[idx + 1].name,
                        arguments |-> response.tool_calls[idx + 1].args ])
            ELSE /\ pc' = "await_question"
                 /\ toolLog' = toolLog
                 /\ console' = "\n" \o Join(finalText', "\n")
    ]_vars

\* A follow-up request of Variant B failed, the next tool call was resolved
\* and followed up all the same, and the query has returned.
C12_Witness ==
  /\ Handler = "ollama"
  /\ pc = "await_question"
  /\ failure = "none"
  /\ SessionAlive
  /\ Len(finalText) = 5
  /\ finalText[2] = "\nEn error occured.\n"
  /\ finalText[4] \in Annotations
  /\ finalText[5] = "reply 3"

\* The tool invocations of the current query that were requested and have
\* neither returned nor raised.
C13_ToolsOutstanding ==
  Len(toolLog) - Resolved - (IF failure = "tool" THEN 1 ELSE 0)

\* The follow-up requests of the current query that were answered: the
\* annotations that are followed by a fragment.
C13_FollowUpsAnswered ==
  Cardinality({ i \in 1..(Len(finalText) - 1) : finalText[i] \in Annotations })

\* The model requests of the current query that were issued and have
\* neither returned nor raised.
C13_ModelsOutstanding ==
  Len(modelReqs) - (IF Responded THEN 1 ELSE 0) - C13_FollowUpsAnswered
    - (IF failure = "model" \/ (failure = "type" /\ Len(modelReqs) > 1)
       THEN 1 ELSE 0)

(***************************************************************************)
(* C13.  At most one external operation of a query (a model request or a   *)
(* tool invocation) is outstanding in any reachable state, never two tool  *)
(* invocations; nothing is outstanding while the driver waits for a line,  *)
(* and a line is only read and dispatched in such a state.                 *)
(***************************************************************************)
C13_LogicallySequential ==
  /\ [] ( /\ C13_ToolsOutstanding \in {0, 1}
          /\ C13_ModelsOutstanding \in {0, 1}
          /\ C13_ToolsOutstanding + C13_ModelsOutstanding <= 1
          /\ InQuery => C13_ToolsOutstanding + C13_ModelsOutstanding = 1
          /\ pc = "await_question" =>
               C13_ToolsOutstanding + C13_ModelsOutstanding = 0 )
  /\ [][ nQueries' # nQueries =>
           /\ pc = "await_question"
           /\ C13_ToolsOutstanding + C13_ModelsOutstanding = 0 ]_vars

\* The second tool invocation of a query is outstanding, the first one and
\* its follow-up request being over.
C13_Witness ==
  /\ pc = "await_callTool"
  /\ Len(toolLog) = 2
  /\ Resolved = 1
  /\ C13_ToolsOutstanding = 1
  /\ C13_ModelsOutstanding = 0
  /\ nQueries = 2

\* The line is the sentinel in some letter case.
C14_IsSentinel(line) == line \in { "quit", "QUIT", "Quit" }

C15_AnnotationPos == { i \in 1..Len(finalText) : finalText[i] \in Annotations }

C15_Pos(k) ==
  CHOOSE i \in C15_AnnotationPos :
    Cardinality({ j \in C15_AnnotationPos : j <= i }) = k

\* The annotation of a callTool request.
C15_AnnotationOf(req) ==
  "[Calling tool " \o req.name \o " with args "
    \o (IF req.arguments = [ undefined |-> TRUE ] THEN "undefined"
        ELSE "{\"a\":2,\"b\":2}")
    \o "]"

(***************************************************************************)
(* C15, as stated.  When a query has returned, its display string is the   *)
(* join of the fragments, and each annotation in it is followed by the     *)
(* text of that call's follow-up reply.                                    *)
(* In Variant B the apology stands there when the follow-up request        *)
(* failed.                                                                 *)
(***************************************************************************)
C15_AnnotationThenFollowUpText ==
  (Responded /\ pc = "await_question") =>
    /\ console = "\n" \o Join(finalText, "\n")
    /\ Resolved = Len(toolLog)
    /\ \A k \in 1..Resolved :
         /\ finalText[C15_Pos(k)] = C15_AnnotationOf(toolLog[k])
         /\ finalText[C15_Pos(k) + 1] \in { ReplyText(k + 1), "" }

(***************************************************************************)
(* C15, amended.  The fragments are kept in emission order and the display *)
(* string of a query that returns is their join with newlines.  There is   *)
(* one annotation per tool invocation that returned, the k-th annotation   *)
(* being that of the k-th invocation; it is followed by the fragment of    *)
(* that call's follow-up (the reply's text, possibly empty, or in Variant  *)
(* B the apology and a newline fragment when the follow-up request         *)
(* failed), and all of these precede the annotation of the next call.      *)
(***************************************************************************)
C15_FragmentsInOrder ==
  (Responded /\ Handler # "none") =>
    /\ pc = "await_callTool" => Resolved = Len(toolLog) - 1
    /\ pc \in { "await_followup", "await_question" } => Resolved = Len(toolLog)
    /\ Resolved <= Len(toolLog)
    /\ \A k \in 1..Resolved :
         LET p == C15_Pos(k) IN
         /\ finalText[p] = C15_AnnotationOf(toolLog[k])
         /\ p < Len(finalText) =>
              \/ finalText[p + 1] \in { ReplyText(k + 1), "" }
              \/ /\ Handler = "ollama"
                 /\ finalText[p + 1] = "\nEn error occured.\n"
                 /\ p + 2 <= Len(finalText)
                 /\ finalText[p + 2] = "\n"
         /\ p = Len(finalText) =>
              \/ pc = "await_followup"
              \/ failure \in { "model", "type" }
              \/ pc = "exited"
         /\ k < Resolved =>
              C15_Pos(k + 1) > (IF finalText[p + 1] = "\nEn error occured.\n"
                                THEN p + 2 ELSE p + 1)
    /\ pc = "await_question" => console = "\n" \o Join(finalText, "\n")

\* A query with two different tool calls has returned; its display string
\* holds both annotations, each followed by the text of its follow-up.
C15_Witness ==
  /\ Responded
  /\ pc = "await_question"
  /\ Resolved = 2
  /\ toolLog[1] # toolLog[2]
  /\ finalText = << C15_AnnotationOf(toolLog[1]), "reply 2",
                    C15_AnnotationOf(toolLog[2]), "reply 3" >>
  /\ console = "\n" \o finalText[1] \o "\nreply 2\n" \o finalText[3]
                    \o "\nreply 3"

\* Name and description of the declarations built for the selected provider.
C16_Built ==
  CASE LLM_PROVIDER = "ANTHROPIC" ->
         [ i \in 1..Len(anthropicTools) |->
             [ name |-> anthropicTools[i].name,
               description |-> anthropicTools[i].description ] ]
    [] LLM_PROVIDER = "OLLAMA" ->
         [ i \in 1..Len(ollamaTool) |->
             [ name |-> ollamaTool[i].function.name,
               description |-> ollamaTool[i].function.description ] ]
    [] OTHER ->
         [ i \in 1..Len(geminiTools) |->
             [ name |-> geminiTools[i].name,
               description |-> geminiTools[i].description ] ]

(***************************************************************************)
(* C16.  Once connectToServer has received a non-empty manifest, the tool  *)
(* declaration list of the selected provider has the manifest's length and *)
(* order, and its i-th declaration carries the name and the description of *)
(* the i-th manifest entry unchanged.                                      *)
(***************************************************************************)
C16_DeclarationsMirrorManifest ==
  ( /\ pc \notin { "start", "await_listTools" }
    /\ manifest # << >>
    /\ LLM_PROVIDER \in { "ANTHROPIC", "OLLAMA", "GEMINI" } )
    => /\ Len(C16_Built) = Len(manifest)
       /\ \A i \in 1..Len(manifest) :
            /\ C16_Built[i].name = manifest[i].name
            /\ C16_Built[i].description = manifest[i].description

\* The Gemini declarations were built from a manifest of two tools.
C16_Witness ==
  /\ LLM_PROVIDER = "GEMINI"
  /\ pc = "await_question"
  /\ Len(manifest) = 2
  /\ Len(geminiTools) = 2
  /\ geminiTools[2].name = "execute_command"
  /\ geminiTools[2].description = "Run a shell command"

\* The declaration lists an object holds after the adapter was applied to
\* manifest m, whatever it held before.
C17_Adapted(m) ==
  << IF LLM_PROVIDER = "ANTHROPIC" /\ client # "one"
     THEN [ i \in 1..Len(m) |->
              [ name |-> m[i].name, description |-> m[i].description,
                input_schema |-> m[i].inputSchema ] ]
     ELSE << >>,
     IF LLM_PROVIDER = "OLLAMA"
     THEN [ i \in 1..Len(m) |->
              [ type |-> "function",
                function |-> [ name |-> m[i].name,
                               description |-> m[i].description,
                               parameters |-> m[i].inputSchema ] ] ]
     ELSE << >>,
     IF LLM_PROVIDER = "GEMINI" /\ client = "three"
     THEN [ i \in 1..Len(m) |->
              [ name |-> m[i].name, description |-> m[i].description,
                parameters |-> [ type |-> "OBJECT",
                                 properties |-> m[i].inputSchema.properties ] ] ]
     ELSE << >> >>

C18_HistoryResetPerQuery ==
  (Handler \in { "anthropic", "ollama" } /\ Len(modelReqs) >= 1) =>
    modelReqs[1].conv =
      << [ role |-> "user", content |-> [ str |-> query ] ] >>

\* The second query of a session, which differs from the first, is being
\* processed by Variant A after its tool call returned.
C18_Witness ==
  /\ Handler = "anthropic"
  /\ nQueries = 2
  /\ prevQuery = "hello"
  /\ query = "Quit "
  /\ pc = "await_followup"
  /\ Len(modelReqs) = 2

(***************************************************************************)
(* C19.  A query makes at most one model request before its first response *)
(* is there and, with n tool-call indicators in that response, at most     *)
(* 1 + n model requests and n tool invocations in all, whatever the        *)
(* follow-up responses carry; and when every awaited operation returns or  *)
(* raises, a query that is being processed comes to its end.               *)
(***************************************************************************)
C19_QueryTerminates ==
  /\ [] ( /\ ~Responded => (Len(modelReqs) <= 1 /\ toolLog = << >>)
          /\ (Responded /\ Handler # "none") =>
               /\ Len(modelReqs) <= 1 + Len(Requested(response))
               /\ Len(toolLog) <= Len(Requested(response)) )
  /\ (InQuery ~> pc \in { "await_question", "await_close", "exited" })

\* Variant C has returned from a query with two function calls, after three
\* model requests and two tool invocations.
C19_Witness ==
  /\ Handler = "gemini"
  /\ Responded
  /\ pc = "await_question"
  /\ Len(Requested(response)) = 2
  /\ Len(toolLog) = 2
  /\ Len(modelReqs) = 3

(***************************************************************************)
(* C20.  Nothing is retried: the step that ends a tool invocation sends    *)
(* nothing to callTool, the step that ends a model request issues no model *)
(* request, the callTool requests never go beyond the indicators of the    *)
(* first response, and from the step in which a query fails on, no model   *)
(* request and no tool invocation is made and no further query is started. *)
(***************************************************************************)
C20_NothingRetried ==
  /\ [][ /\ pc = "await_callTool" => toolLog' = toolLog
         /\ pc \in { "await_first", "await_followup" } => modelReqs' = modelReqs
         /\ failure' # "none" =>
              /\ modelReqs' = modelReqs
              /\ toolLog' = toolLog
              /\ nQueries' = nQueries ]_vars
  /\ [] ( (Responded /\ Handler # "none") =>
            IsPrefix(toolLog, Requested(response)) )

\* The first of two tool calls raised: the second was never sent to
\* callTool, no follow-up request was made, and the process has ended.
C20_Witness ==
  /\ failure = "tool"
  /\ pc = "exited"
  /\ Len(Requested(response)) = 2
  /\ Len(toolLog) = 1
  /\ Len(modelReqs) = 1

\* The turn a tool result is appended as, for the j-th callTool request of
\* the query: the content blocks themselves in Variant A, their JSON text
\* in Variant B.
C21_ResultTurn(j) ==
  LET text == IF toolLog[j].name = "calculate_sum" THEN "4" ELSE "done" IN
  [ role |-> "user",
    content |->
      IF Handler = "anthropic"
      THEN [ blocks |-> << [ type |-> "text", text |-> text ] >> ]
      ELSE [ str |-> "[{\"type\":\"text\",\"text\":\"" \o text \o "\"}]" ] ]

(***************************************************************************)
(* C21.  Variants A and B: while a query is processed its conversation     *)
(* only grows, by one turn at a time at its end; the conversation sent     *)
(* with the k-th follow-up request is the query followed by the first k    *)
(* tool results in order, every turn with role user.                       *)
(***************************************************************************)
C21_ConversationAppendOnly ==
  /\ [][ (InQuery /\ Handler \in { "anthropic", "ollama" }) =>
           /\ IsPrefix(messages, messages')
           /\ Len(messages') <= Len(messages) + 1 ]_vars
  /\ [] ( (Handler \in { "anthropic", "ollama" } /\ Len(modelReqs) >= 1) =>
            /\ Len(messages) = Len(modelReqs)
            /\ \A i \in 1..Len(messages) : messages[i].role = "user"
            /\ messages[1] =
                 [ role |-> "user", content |-> [ str |-> query ] ]
            /\ \A j \in 1..(Len(messages) - 1) :
                 messages[j + 1] = C21_ResultTurn(j)
            /\ \A k \in 1..Len(modelReqs) :
                 modelReqs[k].conv = SubSeq(messages, 1, k) )

\* Variant B has sent its second follow-up request: the conversation holds
\* the query and the results of two different tools.
C21_Witness ==
  /\ Handler = "ollama"
  /\ pc = "await_followup"
  /\ Len(messages) = 3
  /\ Len(modelReqs) = 3
  /\ messages[2] # messages[3]
  /\ modelReqs[3].conv = messages

\* The declaration list of the handler that processes the queries.
C22_Declarations ==
  CASE Handler = "anthropic" -> anthropicTools
    [] Handler = "ollama" -> ollamaTool
    [] OTHER -> geminiTools

(***************************************************************************)
(* C22.  Once connectToServer has completed, no step changes the selected  *)
(* provider or any declaration list, whether a query is processed, fails   *)
(* or the session ends; the first model request of every query carries the *)
(* declaration list of the selected provider as it was built from the      *)
(* manifest.                                                               *)
(***************************************************************************)
C22_ProviderAndToolsFixed ==
  /\ [][ pc \notin { "start", "await_listTools" } =>
           /\ LLM_PROVIDER' = LLM_PROVIDER
           /\ client' = client
           /\ anthropicTools' = anthropicTools
           /\ ollamaTool' = ollamaTool
           /\ geminiTools' = geminiTools
           /\ manifest' = manifest ]_vars
  /\ [] ( (Handler # "none" /\ Len(modelReqs) >= 1) =>
            /\ modelReqs[1].withTools
            /\ modelReqs[1].tools = C22_Declarations
            /\ LLM_PROVIDER \in { "ANTHROPIC", "OLLAMA", "GEMINI" } =>
                 Len(modelReqs[1].tools) = Len(manifest) )

\* The first request of the second query of a session carries the two
\* declarations built at connection time.
C22_Witness ==
  /\ Handler = "ollama"
  /\ nQueries = 2
  /\ pc = "await_first"
  /\ Len(manifest) = 2
  /\ Len(modelReqs[1].tools) = 2
  /\ modelReqs[1].tools[2].function.name = "execute_command"

(***************************************************************************)
(* C23.  When listTools returned a manifest without entries, the driver    *)
(* loop runs all the same: no connection failure was logged, every         *)
(* declaration list is empty, and every model request of the session       *)
(* carries an empty list of tool declarations.                             *)
(***************************************************************************)
C23_EmptyManifestTolerated ==
  ( /\ pc \in { "await_question", "await_first", "await_callTool",
                "await_followup" }
    /\ manifest = << >> )
    => /\ ~connectFailedLogged
       /\ anthropicTools = << >>
       /\ ollamaTool = << >>
       /\ geminiTools = << >>
       /\ \A i \in 1..Len(modelReqs) : modelReqs[i].tools = << >>

\* With an empty manifest, the Gemini handler has sent the first request
\* of the second query.
C23_Witness ==
  /\ Handler = "gemini"
  /\ manifest = << >>
  /\ rlOpen
  /\ pc = "await_first"
  /\ nQueries = 2
  /\ Len(modelReqs) = 1
  /\ modelReqs[1].tools = << >>

(***************************************************************************)
(* C24.  When the connection to the tool process could not be established  *)
(* (the promise of mcp.connect is rejected) or listTools failed, the       *)
(* failure was logged when the process has ended, and the driver loop was  *)
(* never entered: readline was not opened, no line was read, no model      *)
(* request and no tool invocation was made.                                *)
(* The rejection of mcp.connect, which is not awaited, can come after      *)
(* listTools returned and the driver loop started, and nothing logs it.    *)
(***************************************************************************)
C24_ConnectFailureEndsBeforeLoop ==
  (connectState = "rejected" \/ connectFailedLogged) =>
    /\ ~rlOpen
    /\ query = ""
    /\ nQueries = 0
    /\ modelReqs = << >>
    /\ toolLog = << >>
    /\ pc = "exited" => connectFailedLogged

\* The selectors the three-provider client recognises.
C25_Recognised == { "ANTHROPIC", "OLLAMA", "GEMINI" }

\* The fields of a response of the backend of provider p.
C25_ResponseFields(p) ==
  CASE p = "ANTHROPIC" -> { "content" }
    [] p = "OLLAMA" -> { "content", "has_tool_calls", "tool_calls" }
    [] OTHER -> { "functionCalls", "candidates", "text" }

(***************************************************************************)
(* C25.  Three-provider client.  With a recognised selector every query is *)
(* processed by the handler of that provider and no other: its first       *)
(* request carries that provider's declarations, the response it iterates  *)
(* is one of that provider's backend, and only the Gemini handler creates  *)
(* chat sessions.  With any other selector the constructor succeeds and    *)
(* connectToServer goes on to request the tool list, but no declaration    *)
(* list is built, no query makes a model request or a tool invocation, and *)
(* "undefined" is printed for it.                                          *)
(***************************************************************************)
C25_DispatchBySelector ==
  /\ [][ ( /\ client = "three"
           /\ LLM_PROVIDER \notin C25_Recognised
           /\ argv
           /\ pc = "start" ) => pc' = "await_listTools" ]_vars
  /\ [] ( (client = "three" /\ LLM_PROVIDER \notin C25_Recognised) =>
            /\ modelReqs = << >>
            /\ toolLog = << >>
            /\ ~Responded
            /\ chatsCreated = 0
            /\ anthropicTools = << >>
            /\ ollamaTool = << >>
            /\ geminiTools = << >>
            /\ (nQueries > 0 /\ pc = "await_question") =>
                 console = "\n" \o "undefined" )
  /\ [] ( (client = "three" /\ LLM_PROVIDER \in C25_Recognised) =>
            /\ InQuery => Len(modelReqs) >= 1
            /\ Len(modelReqs) >= 1 =>
                 modelReqs[1].tools =
                   ( CASE LLM_PROVIDER = "ANTHROPIC" -> anthropicTools
                       [] LLM_PROVIDER = "OLLAMA" -> ollamaTool
                       [] OTHER -> geminiTools )
            /\ Responded =>
                 DOMAIN response = C25_ResponseFields(LLM_PROVIDER)
            /\ chatsCreated =
                 (IF LLM_PROVIDER = "GEMINI" THEN nQueries ELSE 0) )

\* With a selector that is not recognised, the session was connected to a
\* server with two tools and two lines were answered with "undefined".
C25_Witness ==
  /\ client = "three"
  /\ LLM_PROVIDER = "OTHER"
  /\ pc = "await_question"
  /\ rlOpen
  /\ Len(manifest) = 2
  /\ nQueries = 2
  /\ console = "\n" \o "undefined"

(***************************************************************************)
(* C26.  Test tool server: a call-tool request naming a tool that the      *)
(* list-tools handler advertises does not fail with "Tool not found", and  *)
(* that failure occurs only for names that are not advertised.             *)
(* The call-tool handler knows calculate_sum only; execute_command is      *)
(* advertised and not handled.                                             *)
(***************************************************************************)
C26_AdvertisedToolsAccepted ==
  toolLog # << >> =>
    LET name == toolLog[Len(toolLog)].name
        advertised == { ServerTools[i].name : i \in 1..Len(ServerTools) }
    IN /\ name \in advertised => response.threw # "Tool not found"
       /\ response.threw = "Tool not found" => name \notin advertised

=============================================================================
